---- MODULE Spec2Model ----
(***************************************************************************)
(* Predictive prefetch-and-render cache of the blog: the StaticPrefetcher  *)
(* of src/prefetch-static.js and the ArticlePrefetcher of src/prefetch.js. *)
(* One behaviour runs one prefetcher instance (impl); the two classes keep *)
(* the same fields (prefetched is prefetchedUrls in ArticlePrefetcher).    *)
(* Every action is one task of the single event loop: an event handler, a  *)
(* timer callback or the continuation of an await, run to its next         *)
(* suspension point.                                                       *)
(* The StaticPrefetcher constructor reads the global name tre at line 9;   *)
(* Init is the state after a construction that got past that line, as it   *)
(* does on a page that defines the name.                                   *)
(***************************************************************************)
EXTENDS Integers, Sequences, FiniteSets, Bags, TLC

\* ------------------------------------------------------------------ bounds
\* The content identifiers (urls / slugs) of the page's trackable articles.
Urls == {"A", "B", "C"}
\* The bodies a fetch may deliver for a url (the server's content may change):
\* a built article page, whose body is a main element, and a page without one.
Htmls == {"<title>t</title><main>m</main>", "<title>e</title><p>p</p>"}
\* Largest explicit maxConcurrent / maxConcurrentPrefetch option tried.
MaxOptConcurrent == 2
\* Largest number of live timers (setTimeout handles not yet fired/cleared).
MaxTimers == 2
\* Largest length of ArticlePrefetcher.prefetchQueue (it is unbounded in code).
MaxQueue == 4
\* Largest number of history entries pushed by instant navigations.
MaxHistory == 2
\* Largest number of click listeners of the draft suspended at one time.
MaxClicks == 1

\* --------------------------------------------------------------- constants
DefaultMaxConcurrent == 3

Priorities == {"high", "low"}

VARIABLES
    impl,              \* which class this instance is: "static" | "article",
                       \* or "draft" for the renderer-based ArticlePrefetcher;
                       \* "none" before construction, "threw" after a
                       \* constructor that threw
    maxConcurrent,     \* options.maxConcurrent / options.maxConcurrentPrefetch
    shouldPrefetch,    \* this.shouldPrefetch (the connection gate)
    linkSupport,       \* host: relList.supports('prefetch'): "yes" | "no" | "throws"
    prefetched,        \* this.prefetched / this.prefetchedUrls (a Set)
    cache,             \* this.cache (a Map url -> entry)
    hoverTimers,       \* this.hoverTimers (a Map url -> timer handle)
    prefetchQueue,     \* this.prefetchQueue (an array)
    activePrefetches,  \* this.activePrefetches
    inflight,          \* suspended prefetch() calls: a bag of [url, phase]
    timers,            \* the host's live timers: a set of [id, url, kind]
    prefetchLog,       \* history: the calls of prefetch / prefetchArticle that the
                       \* last task's timer callback and processQueue made
    fetchLog,          \* network prefetches started by the last task
    queuedAs,          \* history: the priority each pending url was deferred with
    completed,         \* history: urls a StaticPrefetcher fetch has succeeded for
    connection,        \* host: navigator.connection, <<>> when absent
    articles,          \* host: the urls of the article elements in the document
    observed,          \* the elements registered with this.intersectionObserver
    display            \* host: the document shown, its history and location

vars == <<impl, maxConcurrent, shouldPrefetch, linkSupport, prefetched, cache,
          hoverTimers, prefetchQueue, activePrefetches, inflight, timers,
          prefetchLog, fetchLog, queuedAs, completed,
          connection, articles, observed, display>>

\* ----------------------------------------------------------------- helpers
EmptyMap == [x \in {} |-> x]
MapSet(m, k, v) == [x \in DOMAIN m \cup {k} |-> IF x = k THEN v ELSE m[x]]
MapDelete(m, k) == [x \in DOMAIN m \ {k} |-> m[x]]
Range(s) == {s[i] : i \in DOMAIN s}
Op(url, phase) == [url |-> url, phase |-> phase]
Call(url, priority) == [url |-> url, priority |-> priority]

\* The connection information the host may report: none, or {saveData, effectiveType}.
Connections ==
    {<<>>} \cup {<<[saveData |-> s, effectiveType |-> t]>> :
                    s \in BOOLEAN, t \in {"slow-2g", "2g", "3g", "4g"}}

\* Mutant of checkConnection: the save-data flag is not looked at.
checkConnectionIgnoresSaveData(conn) ==
    IF conn = <<>> THEN TRUE
    ELSE IF conn[1].effectiveType = "slow-2g" \/ conn[1].effectiveType = "2g" THEN FALSE
    ELSE TRUE

checkConnection(conn) ==
    IF conn = <<>> THEN TRUE
    ELSE IF conn[1].saveData THEN FALSE
    ELSE IF conn[1].effectiveType = "slow-2g" \/ conn[1].effectiveType = "2g" THEN FALSE
    ELSE TRUE

\* init(): the listeners and observers it installs; it returns before
\* installing any when the gate is closed. In ArticlePrefetcher the hover
\* listeners come with the intersection observer that init sets up.
Listeners == {"hover", "click", "visible"}
initIgnoresGate(gate) == Listeners
init(gate) == IF ~gate THEN {} ELSE Listeners
Attached(kind) == kind \in init(shouldPrefetch)

\* options.maxConcurrent || 3, then ...options: <<k>> is an option given as a
\* positive number k, <<>> an omitted one. Both pages pass the option, so the
\* instances taken here are the ones constructed with it.
OptionValues == {<<k>> : k \in 1..MaxOptConcurrent}
optionMaxConcurrent(opt) == IF opt = <<>> THEN DefaultMaxConcurrent ELSE opt[1]

\* The prefetcher's fields as one record, as a handler sees them on entry.
Core ==
    [prefetched |-> prefetched, cache |-> cache, prefetchQueue |-> prefetchQueue,
     activePrefetches |-> activePrefetches, inflight |-> inflight,
     prefetchLog |-> <<>>, fetchLog |-> <<>>,
     queuedAs |-> queuedAs, completed |-> completed]

\* Write a record of fields back as the next state.
Commit(st) ==
    /\ prefetched' = st.prefetched
    /\ cache' = st.cache
    /\ prefetchQueue' = st.prefetchQueue
    /\ activePrefetches' = st.activePrefetches
    /\ inflight' = st.inflight
    /\ prefetchLog' = st.prefetchLog
    /\ fetchLog' = st.fetchLog
    /\ queuedAs' = st.queuedAs
    /\ completed' = st.completed

\* Record that the running task calls prefetch(url, priority).
Calling(st, url, priority) ==
    [st EXCEPT !.prefetchLog = Append(@, Call(url, priority))]

\* ------------------------------------------------- StaticPrefetcher: queue
\* Mutants of prefetch: the admission test off by one (> for >=), and the
\* cache check of line 143 left out.
prefetchAdmitsAtLimit(st, url, priority) ==
    IF url \in st.prefetched THEN st
    ELSE IF url \in DOMAIN st.cache THEN st
    ELSE IF st.activePrefetches > maxConcurrent
         THEN IF url \notin Range(st.prefetchQueue)
              THEN [st EXCEPT !.prefetchQueue = Append(@, url),
                              !.queuedAs = MapSet(@, url, priority)]
              ELSE st
    ELSE [st EXCEPT !.activePrefetches = @ + 1,
                    !.prefetched = @ \cup {url},
                    !.inflight = @ (+) SetToBag({Op(url, "fetch")}),
                    !.fetchLog = Append(@, Call(url, priority))]

prefetchIgnoresCache(st, url, priority) ==
    IF url \in st.prefetched THEN st
    ELSE IF st.activePrefetches >= maxConcurrent
         THEN IF url \notin Range(st.prefetchQueue)
              THEN [st EXCEPT !.prefetchQueue = Append(@, url),
                              !.queuedAs = MapSet(@, url, priority)]
              ELSE st
    ELSE [st EXCEPT !.activePrefetches = @ + 1,
                    !.prefetched = @ \cup {url},
                    !.inflight = @ (+) SetToBag({Op(url, "fetch")}),
                    !.fetchLog = Append(@, Call(url, priority))]

\* prefetch(url, priority) up to its first await (the fetch).
prefetch(st, url, priority) ==
    IF url \in st.prefetched THEN st
    ELSE IF url \in DOMAIN st.cache THEN st
    ELSE IF st.activePrefetches >= maxConcurrent
         THEN IF url \notin Range(st.prefetchQueue)
              THEN [st EXCEPT !.prefetchQueue = Append(@, url),
                              !.queuedAs = MapSet(@, url, priority)]
              ELSE st
    ELSE [st EXCEPT !.activePrefetches = @ + 1,
                    !.prefetched = @ \cup {url},
                    !.inflight = @ (+) SetToBag({Op(url, "fetch")}),
                    !.fetchLog = Append(@, Call(url, priority))]

processQueue(st) ==
    IF Len(st.prefetchQueue) = 0 THEN st
    ELSE IF st.activePrefetches >= maxConcurrent THEN st
    ELSE prefetch(Calling([st EXCEPT !.prefetchQueue = Tail(@),
                                     !.queuedAs = MapDelete(@, Head(st.prefetchQueue))],
                          Head(st.prefetchQueue), "high"),
                  Head(st.prefetchQueue), "high")

\* Mutant of prefetchFinally: the slot is freed but the queue is not drained.
prefetchFinallyNoDrain(st) ==
    [st EXCEPT !.activePrefetches = @ - 1]

\* The finally block of prefetch.
prefetchFinally(st) ==
    processQueue([st EXCEPT !.activePrefetches = @ - 1])

\* Mutant of prefetchCatch: the failed url stays marked as prefetched.
prefetchCatchKeepsMark(st, url) ==
    processQueue([st EXCEPT !.activePrefetches = @ - 1])

\* The catch block of prefetch, then finally.
prefetchCatch(st, url) ==
    prefetchFinally([st EXCEPT !.prefetched = @ \ {url}])

\* new DOMParser().parseFromString(html, 'text/html'): the document's title
\* and the content of its main element, <<>> when it has none.
parseFromString(html) ==
    IF html = "<title>t</title><main>m</main>"
    THEN [title |-> "t", main |-> <<"m">>]
    ELSE [title |-> "e", main |-> <<>>]

\* Mutant of prefetchStore: the cache keeps the newest entry only.
prefetchStoreEvicts(st, url, html) ==
    prefetchFinally([st EXCEPT !.cache = MapSet(EmptyMap, url,
                                                [html |-> html,
                                                 doc |-> parseFromString(html)]),
                               !.completed = @ \cup {url}])

\* Mutant of prefetchStore: the entry is written only by a call that finds
\* no other call suspended.
prefetchStoreUnlessBusy(st, url, html) ==
    prefetchFinally([st EXCEPT !.cache = IF st.inflight = EmptyBag
                                         THEN MapSet(@, url, [html |-> html,
                                                              doc |-> parseFromString(html)])
                                         ELSE @,
                               !.completed = @ \cup {url}])

\* The rest of the try block after response.text() resolved, then finally.
prefetchStore(st, url, html) ==
    prefetchFinally([st EXCEPT !.cache = MapSet(@, url, [html |-> html,
                                                         doc |-> parseFromString(html)]),
                               !.completed = @ \cup {url}])

\* The suspended call op resumes: it leaves the set of suspended calls.
Resume(op) == [Core EXCEPT !.inflight = @ (-) SetToBag({op})]

clearCache(st) == [st EXCEPT !.cache = EmptyMap, !.prefetched = {}]

\* ------------------------------------------------ host timers and handles
TimerIds == 1..MaxTimers
UsedIds == {t.id : t \in timers} \cup Range(hoverTimers)
FreshId == CHOOSE i \in TimerIds \ UsedIds : \A j \in TimerIds \ UsedIds : i <= j
CanSetTimeout == Cardinality(timers) < MaxTimers /\ TimerIds \ UsedIds # {}
Timer(id, url, kind) == [id |-> id, url |-> url, kind |-> kind]
clearTimeout(ts, id) == {t \in ts : t.id # id}

UnchangedCore ==
    /\ UNCHANGED <<prefetched, cache, prefetchQueue, activePrefetches, inflight>>
    /\ UNCHANGED <<queuedAs, completed>>
    /\ prefetchLog' = <<>>
    /\ fetchLog' = <<>>

UnchangedConfig == UNCHANGED <<impl, maxConcurrent, shouldPrefetch, linkSupport>>

\* A task that leaves the host's connection information, the document's
\* elements and what is displayed alone.
UnchangedHost == UNCHANGED <<connection, articles, observed, display>>

\* ---------------------------------------------- StaticPrefetcher: actions
\* A caller invokes the method prefetch(url, priority): prefetchURL(url) is
\* prefetch(url, 'high'); the staggered and visibility timers of
\* prefetchVisible / setupIntersectionPrefetch call prefetch(url, 'low').
Prefetch(url, priority) ==
    /\ impl = "static"
    /\ Commit(prefetch(Core, url, priority))
    /\ UNCHANGED <<hoverTimers, timers>>
    /\ UnchangedConfig
    /\ UnchangedHost

\* Mutant of scheduleHoverPrefetch: a timer is set at every mouseenter.
scheduleHoverPrefetchAgain(url) ==
    /\ CanSetTimeout
    /\ timers' = timers \cup {Timer(FreshId, url, "hover")}
    /\ hoverTimers' = MapSet(hoverTimers, url, FreshId)

\* scheduleHoverPrefetch(url, article), called by the mouseenter listener.
scheduleHoverPrefetch(url) ==
    IF url \in DOMAIN hoverTimers
    THEN UNCHANGED <<hoverTimers, timers>>
    ELSE /\ CanSetTimeout
         /\ timers' = timers \cup {Timer(FreshId, url, "hover")}
         /\ hoverTimers' = MapSet(hoverTimers, url, FreshId)

MouseEnter(url) ==
    /\ impl = "static"
    /\ Attached("hover")
    /\ url \in articles
    /\ scheduleHoverPrefetch(url)
    /\ UnchangedCore
    /\ UnchangedConfig
    /\ UnchangedHost

\* Mutant of mouseLeave: the map entry is deleted but the timer is not cleared.
mouseLeaveKeepsTimer(url) ==
    IF url \in DOMAIN hoverTimers
    THEN /\ timers' = timers
         /\ hoverTimers' = MapDelete(hoverTimers, url)
    ELSE UNCHANGED <<hoverTimers, timers>>

\* The mouseleave listener.
mouseLeave(url) ==
    IF url \in DOMAIN hoverTimers
    THEN /\ timers' = clearTimeout(timers, hoverTimers[url])
         /\ hoverTimers' = MapDelete(hoverTimers, url)
    ELSE UNCHANGED <<hoverTimers, timers>>

MouseLeave(url) ==
    /\ impl = "static"
    /\ Attached("hover")
    /\ url \in articles
    /\ mouseLeave(url)
    /\ UnchangedCore
    /\ UnchangedConfig
    /\ UnchangedHost

\* Mutant of hoverCallback: the hover prefetch is issued with low priority.
hoverCallbackLow(st, url) == prefetch(Calling(st, url, "low"), url, "low")

\* The callback of the hover timer: prefetch(url), hoverTimers.delete(url).
hoverCallback(st, url) == prefetch(Calling(st, url, "high"), url, "high")

HoverTimerFire(t) ==
    /\ impl = "static"
    /\ t \in timers
    /\ t.kind = "hover"
    /\ timers' = timers \ {t}
    /\ Commit(hoverCallback(Core, t.url))
    /\ hoverTimers' = MapDelete(hoverTimers, t.url)
    /\ UnchangedConfig
    /\ UnchangedHost

\* The IntersectionObserver callback for an element that became visible.
Intersect(url) ==
    /\ impl = "static"
    /\ Attached("visible")
    /\ url \in observed
    /\ CanSetTimeout
    /\ timers' = timers \cup {Timer(FreshId, url, "visible")}
    /\ UNCHANGED hoverTimers
    /\ UnchangedCore
    /\ UnchangedConfig
    /\ UnchangedHost

\* Mutant of visibleCallback: the visibility prefetch is issued with the
\* default priority.
visibleCallbackHigh(st, url) == prefetch(Calling(st, url, "high"), url, "high")

\* The callback of the visibility timer: prefetch(url, 'low').
visibleCallback(st, url) == prefetch(Calling(st, url, "low"), url, "low")

VisibleTimerFire(t) ==
    /\ impl = "static"
    /\ t \in timers
    /\ t.kind = "visible"
    /\ timers' = timers \ {t}
    /\ Commit(visibleCallback(Core, t.url))
    /\ UNCHANGED hoverTimers
    /\ UnchangedConfig
    /\ UnchangedHost

\* await fetch(...) resolves with a response; !response.ok throws.
FetchResponse(op, ok) ==
    /\ impl = "static"
    /\ BagIn(op, inflight)
    /\ op.phase = "fetch"
    /\ IF ok
       THEN Commit([Resume(op) EXCEPT !.inflight = @ (+) SetToBag({Op(op.url, "text")})])
       ELSE Commit(prefetchCatch(Resume(op), op.url))
    /\ UNCHANGED <<hoverTimers, timers>>
    /\ UnchangedConfig
    /\ UnchangedHost

\* await fetch(...) rejects (network error).
FetchError(op) ==
    /\ impl = "static"
    /\ BagIn(op, inflight)
    /\ op.phase = "fetch"
    /\ Commit(prefetchCatch(Resume(op), op.url))
    /\ UNCHANGED <<hoverTimers, timers>>
    /\ UnchangedConfig
    /\ UnchangedHost

\* await response.text() resolves: parse, cache.set, then finally.
TextDone(op, html) ==
    /\ impl = "static"
    /\ BagIn(op, inflight)
    /\ op.phase = "text"
    /\ Commit(prefetchStore(Resume(op), op.url, html))
    /\ UNCHANGED <<hoverTimers, timers>>
    /\ UnchangedConfig
    /\ UnchangedHost

\* await response.text() rejects.
TextError(op) ==
    /\ impl = "static"
    /\ BagIn(op, inflight)
    /\ op.phase = "text"
    /\ Commit(prefetchCatch(Resume(op), op.url))
    /\ UNCHANGED <<hoverTimers, timers>>
    /\ UnchangedConfig
    /\ UnchangedHost

ClearCache ==
    /\ impl = "static"
    /\ Commit(clearCache(Core))
    /\ UNCHANGED <<hoverTimers, timers>>
    /\ UnchangedConfig
    /\ UnchangedHost

\* What the window shows: the current document's title and the content of
\* its main element (<<>> when it has none), the history entries pushed,
\* the url of a page load that was started (<<>> when none), the scroll
\* position, and whether the last click had its default action prevented.
IndexPage ==
    [title |-> "index", main |-> <<"cards">>, history |-> <<>>,
     location |-> <<>>, scrollTop |-> 0, prevented |-> FALSE]
InitialDisplays ==
    {[IndexPage EXCEPT !.main = m, !.scrollTop = y] :
        m \in {<<"cards">>, <<>>}, y \in {0, 1}}

\* navigate(url).
navigate(d, url) ==
    IF url \in DOMAIN cache
    THEN IF cache[url].doc.main # <<>> /\ d.main # <<>>
         THEN [d EXCEPT !.main = cache[url].doc.main,
                        !.title = cache[url].doc.title,
                        !.history = Append(@, url),
                        !.scrollTop = 0]
         ELSE d
    ELSE [d EXCEPT !.location = <<url>>]

\* The click listener of setupInstantNav: preventDefault, stopPropagation,
\* navigate(url).
clickListener(d, url) == navigate([d EXCEPT !.prevented = TRUE], url)

\* The article's own onclick attribute, run when no listener stopped the
\* click: window.location.href = url.
onclick(d, url) == [d EXCEPT !.location = <<url>>, !.prevented = FALSE]

\* A click on the article element of url, while the page is still shown.
Click(url) ==
    /\ impl = "static"
    /\ url \in articles
    /\ display.location = <<>>
    /\ Len(display.history) < MaxHistory
    /\ display' = IF Attached("click") THEN clickListener(display, url)
                                        ELSE onclick(display, url)
    /\ UNCHANGED <<hoverTimers, timers, connection, articles, observed>>
    /\ UnchangedCore
    /\ UnchangedConfig

\* The host's connection information changes after construction.
ConnectionChange(conn) ==
    /\ conn # connection
    /\ connection' = conn
    /\ UNCHANGED <<hoverTimers, timers, articles, observed, display>>
    /\ UnchangedCore
    /\ UnchangedConfig

\* An article element for url is appended to the document after init. The
\* StaticPrefetcher registered its observer with the elements present at
\* init only; its hover and click listeners are delegated on the document.
AppendArticle(url) ==
    /\ impl = "static"
    /\ url \notin articles
    /\ articles' = articles \cup {url}
    /\ UNCHANGED <<hoverTimers, timers, connection, observed, display>>
    /\ UnchangedCore
    /\ UnchangedConfig


\* ------------------------------------------------ ArticlePrefetcher: queue
\* The article cards of the page, in document order.
Cards == <<"A", "B", "C">>

RECURSIVE prefetchArticle(_, _), articleProcessQueue(_)

\* The finally block of prefetchArticle.
articleFinally(st) ==
    articleProcessQueue([st EXCEPT !.activePrefetches = @ - 1])

\* The catch block of prefetchArticle, then finally.
articleCatch(st, slug) ==
    articleFinally([st EXCEPT !.prefetched = @ \ {slug}])

\* prefetchArticle(slug) up to its first await. With link prefetch supported
\* the call never suspends: it appends the link and runs finally at once.
prefetchArticle(st, slug) ==
    LET admitted == [st EXCEPT !.activePrefetches = @ + 1,
                               !.prefetched = @ \cup {slug}]
    IN  IF slug \in st.prefetched THEN st
        ELSE IF st.activePrefetches >= maxConcurrent
             THEN [st EXCEPT !.prefetchQueue = Append(@, slug)]
        ELSE CASE linkSupport = "yes" ->
                      articleFinally([admitted EXCEPT
                                        !.fetchLog = Append(@, Call(slug, "link"))])
               [] linkSupport = "throws" -> articleCatch(admitted, slug)
               [] OTHER ->
                      [admitted EXCEPT
                         !.inflight = @ (+) SetToBag({Op(slug, "fetch")}),
                         !.fetchLog = Append(@, Call(slug, "low"))]

articleProcessQueue(st) ==
    IF Len(st.prefetchQueue) = 0 THEN st
    ELSE IF st.activePrefetches >= maxConcurrent THEN st
    ELSE prefetchArticle(Calling([st EXCEPT !.prefetchQueue = Tail(@)],
                                 Head(st.prefetchQueue), "low"),
                         Head(st.prefetchQueue))

RECURSIVE pushAll(_, _)
pushAll(queue, slugs) ==
    IF slugs = <<>> THEN queue ELSE pushAll(Append(queue, Head(slugs)), Tail(slugs))

prefetchAll(st) ==
    articleProcessQueue([st EXCEPT !.prefetchQueue = pushAll(@, Cards)])

\* The model follows prefetchQueue up to MaxQueue entries.
Within(st) == Len(st.prefetchQueue) <= MaxQueue

\* ---------------------------------------------- ArticlePrefetcher: actions
\* prefetch(slug), or the touchstart listener: prefetchArticle(slug).
ArticlePrefetch(slug) ==
    /\ impl = "article"
    /\ Within(prefetchArticle(Core, slug))
    /\ Commit(prefetchArticle(Core, slug))
    /\ UNCHANGED <<hoverTimers, timers>>
    /\ UnchangedConfig
    /\ UnchangedHost

PrefetchAll ==
    /\ impl = "article"
    /\ Len(prefetchQueue) + Len(Cards) <= MaxQueue
    /\ Commit(prefetchAll(Core))
    /\ UNCHANGED <<hoverTimers, timers>>
    /\ UnchangedConfig
    /\ UnchangedHost

\* clear()
ArticleClear ==
    /\ impl = "article"
    /\ Commit([Core EXCEPT !.prefetched = {}, !.prefetchQueue = <<>>])
    /\ timers' = {t \in timers : t.id \notin Range(hoverTimers)}
    /\ hoverTimers' = EmptyMap
    /\ UnchangedConfig
    /\ UnchangedHost

\* prefetchWithFetch: await fetch(...) resolves; !response.ok throws.
ArticleFetchResponse(op, ok) ==
    /\ impl = "article"
    /\ BagIn(op, inflight)
    /\ op.phase = "fetch"
    /\ IF ok
       THEN Commit([Resume(op) EXCEPT !.inflight = @ (+) SetToBag({Op(op.url, "text")})])
       ELSE Commit(articleCatch(Resume(op), op.url))
    /\ UNCHANGED <<hoverTimers, timers>>
    /\ UnchangedConfig
    /\ UnchangedHost

\* prefetchWithFetch: await fetch(...) rejects.
ArticleFetchError(op) ==
    /\ impl = "article"
    /\ BagIn(op, inflight)
    /\ op.phase = "fetch"
    /\ Commit(articleCatch(Resume(op), op.url))
    /\ UNCHANGED <<hoverTimers, timers>>
    /\ UnchangedConfig
    /\ UnchangedHost

\* prefetchWithFetch: await clone.text() resolves; then finally.
ArticleTextDone(op) ==
    /\ impl = "article"
    /\ BagIn(op, inflight)
    /\ op.phase = "text"
    /\ Commit(articleFinally(Resume(op)))
    /\ UNCHANGED <<hoverTimers, timers>>
    /\ UnchangedConfig
    /\ UnchangedHost

\* prefetchWithFetch: await clone.text() rejects.
ArticleTextError(op) ==
    /\ impl = "article"
    /\ BagIn(op, inflight)
    /\ op.phase = "text"
    /\ Commit(articleCatch(Resume(op), op.url))
    /\ UNCHANGED <<hoverTimers, timers>>
    /\ UnchangedConfig
    /\ UnchangedHost

\* Mutant of handleMouseEnter: the timer already running is not cleared.
handleMouseEnterKeepsOld(slug) ==
    /\ CanSetTimeout
    /\ timers' = timers \cup {Timer(FreshId, slug, "hover")}
    /\ hoverTimers' = MapSet(hoverTimers, slug, FreshId)

\* handleMouseEnter(slug, card): the timer already running for the slug is
\* cleared and a new one is set; setTimeout returns a handle that differs
\* from the live ones and from the one just cleared.
handleMouseEnter(slug) ==
    LET cleared == IF slug \in DOMAIN hoverTimers
                   THEN clearTimeout(timers, hoverTimers[slug])
                   ELSE timers
    IN  /\ Cardinality(cleared) < MaxTimers
        /\ TimerIds \ UsedIds # {}
        /\ timers' = cleared \cup {Timer(FreshId, slug, "hover")}
        /\ hoverTimers' = MapSet(hoverTimers, slug, FreshId)

ArticleMouseEnter(slug) ==
    /\ impl = "article"
    /\ Attached("hover")
    /\ handleMouseEnter(slug)
    /\ UnchangedCore
    /\ UnchangedConfig
    /\ UnchangedHost

\* handleMouseLeave(slug)
handleMouseLeave(slug) ==
    IF slug \in DOMAIN hoverTimers
    THEN /\ timers' = clearTimeout(timers, hoverTimers[slug])
         /\ hoverTimers' = MapDelete(hoverTimers, slug)
    ELSE UNCHANGED <<hoverTimers, timers>>

ArticleMouseLeave(slug) ==
    /\ impl = "article"
    /\ Attached("hover")
    /\ handleMouseLeave(slug)
    /\ UnchangedCore
    /\ UnchangedConfig
    /\ UnchangedHost

\* The callback of the hover timer: prefetchArticle(slug), hoverTimers.delete(slug).
articleCallback(st, slug) == prefetchArticle(Calling(st, slug, "low"), slug)

ArticleTimerFire(t) ==
    /\ impl = "article"
    /\ t \in timers
    /\ t.kind = "hover"
    /\ Within(articleCallback(Core, t.url))
    /\ timers' = timers \ {t}
    /\ Commit(articleCallback(Core, t.url))
    /\ hoverTimers' = MapDelete(hoverTimers, t.url)
    /\ UnchangedConfig
    /\ UnchangedHost

Ops == {Op(u, p) : u \in Urls, p \in {"fetch", "text"}}

\* ------------------------------------------------------------------- spec
InitFields ==
    /\ prefetched = {}
    /\ cache = EmptyMap
    /\ hoverTimers = EmptyMap
    /\ prefetchQueue = <<>>
    /\ activePrefetches = 0
    /\ inflight = EmptyBag
    /\ timers = {}
    /\ prefetchLog = <<>>
    /\ fetchLog = <<>>
    /\ queuedAs = EmptyMap
    /\ completed = {}

\* A constructed prefetcher of either class, on any host.
Init ==
    /\ impl \in {"static", "article"}
    /\ \E opt \in OptionValues : maxConcurrent = optionMaxConcurrent(opt)
    /\ connection \in Connections
    /\ shouldPrefetch = checkConnection(connection)
    /\ linkSupport \in IF impl = "article" THEN {"yes", "no", "throws"} ELSE {"no"}
    /\ articles \in SUBSET Urls
    /\ observed = IF "visible" \in init(shouldPrefetch) THEN articles ELSE {}
    /\ display \in InitialDisplays
    /\ InitFields

\* Completions of the suspended calls of a StaticPrefetcher.
StaticCompletion ==
    \/ \E op \in Ops, ok \in BOOLEAN : FetchResponse(op, ok)
    \/ \E op \in Ops : FetchError(op)
    \/ \E op \in Ops, h \in Htmls : TextDone(op, h)
    \/ \E op \in Ops : TextError(op)

\* Completions of the suspended calls of an ArticlePrefetcher.
ArticleCompletion ==
    \/ \E op \in Ops, ok \in BOOLEAN : ArticleFetchResponse(op, ok)
    \/ \E op \in Ops : ArticleFetchError(op)
    \/ \E op \in Ops : ArticleTextDone(op)
    \/ \E op \in Ops : ArticleTextError(op)

\* The queue and the cache of an enabled prefetcher under any sequence of
\* calls of its methods and any completion order.
\* The host is the built index page with all its articles, in a browser
\* without navigator.connection (nothing reads the connection again).
FullPage ==
    /\ articles = Urls
    /\ display = IndexPage

OpenInit ==
    /\ Init
    /\ shouldPrefetch
    /\ connection = <<>>
    /\ FullPage

Next ==
    \/ \E u \in Urls, p \in Priorities : Prefetch(u, p)
    \/ ClearCache
    \/ \E u \in Urls : ArticlePrefetch(u)
    \/ PrefetchAll
    \/ ArticleClear
    \/ StaticCompletion
    \/ ArticleCompletion

Spec == OpenInit /\ [][Next]_vars

\* The hover and visibility schedulers driving the queue.
HoverInit ==
    /\ OpenInit
    /\ maxConcurrent = 1

HoverNext ==
    \/ \E u \in Urls : MouseEnter(u)
    \/ \E u \in Urls : MouseLeave(u)
    \/ \E t \in timers : HoverTimerFire(t)
    \/ \E u \in Urls : Intersect(u)
    \/ \E t \in timers : VisibleTimerFire(t)
    \/ \E u \in Urls : ArticleMouseEnter(u)
    \/ \E u \in Urls : ArticleMouseLeave(u)
    \/ \E t \in timers : ArticleTimerFire(t)
    \/ ArticleClear
    \/ StaticCompletion
    \/ ArticleCompletion

HoverSpec == HoverInit /\ [][HoverNext]_vars

\* A StaticPrefetcher with one slot whose admitted fetch always completes or
\* fails eventually: with one slot at most one call is suspended, so weak
\* fairness of the completions says that it resumes.
FairInit ==
    /\ OpenInit
    /\ impl = "static"
    /\ maxConcurrent = 1

FairNext ==
    \/ \E u \in Urls, p \in Priorities : Prefetch(u, p)
    \/ ClearCache
    \/ StaticCompletion

FairSpec ==
    /\ FairInit
    /\ [][FairNext]_vars
    /\ WF_vars(StaticCompletion)

\* The end-to-end scenario: on a page showing A, B and C a StaticPrefetcher
\* with two slots gets the low-priority requests for A, B and C in that order,
\* each once, from its visibility timers (equal delays: they fire in the
\* order they were set); every fetch succeeds.
ScenarioOrder == <<"A", "B", "C">>
Requested(url) ==
    url \in prefetched \/ url \in Range(prefetchQueue) \/ url \in DOMAIN cache
Scheduled(url) == \E t \in timers : t.url = url

ScenarioInit ==
    /\ OpenInit
    /\ impl = "static"
    /\ maxConcurrent = Len(ScenarioOrder) - 1

ScenarioIntersect(i) ==
    /\ \A j \in 1..(i - 1) : Scheduled(ScenarioOrder[j]) \/ Requested(ScenarioOrder[j])
    /\ ~Scheduled(ScenarioOrder[i])
    /\ ~Requested(ScenarioOrder[i])
    /\ Intersect(ScenarioOrder[i])

ScenarioRequest(t) ==
    /\ \A j \in DOMAIN ScenarioOrder :
          Scheduled(ScenarioOrder[j]) => \E i \in 1..j : ScenarioOrder[i] = t.url
    /\ VisibleTimerFire(t)

ScenarioNext ==
    \/ \E i \in DOMAIN ScenarioOrder : ScenarioIntersect(i)
    \/ \E t \in timers : ScenarioRequest(t)
    \/ \E op \in Ops : FetchResponse(op, TRUE)
    \/ \E op \in Ops, h \in Htmls : TextDone(op, h)

ScenarioSpec == ScenarioInit /\ [][ScenarioNext]_vars

\* Clicks on the articles of a page whose StaticPrefetcher has one slot,
\* between prefetch calls and their completions; the document shown may or
\* may not have a main element and may be scrolled.
NavInit ==
    /\ Init
    /\ impl = "static"
    /\ shouldPrefetch
    /\ connection = <<>>
    /\ articles = Urls
    /\ maxConcurrent = 1

NavNext ==
    \/ \E u \in Urls, p \in Priorities : Prefetch(u, p)
    \/ \E u \in Urls : Click(u)
    \/ StaticCompletion

NavSpec == NavInit /\ [][NavNext]_vars

\* A prefetcher with one slot constructed on any connection, open gate or
\* closed, under pointer, visibility and click events and later changes of
\* the connection information; the timers the events set are left pending.
GateInit ==
    /\ Init
    /\ maxConcurrent = 1
    /\ FullPage

GateNext ==
    \/ \E conn \in Connections : ConnectionChange(conn)
    \/ \E u \in Urls : MouseEnter(u)
    \/ \E u \in Urls : MouseLeave(u)
    \/ \E u \in Urls : Intersect(u)
    \/ \E u \in Urls : Click(u)
    \/ \E u \in Urls : ArticleMouseEnter(u)
    \/ \E u \in Urls : ArticleMouseLeave(u)

GateSpec == GateInit /\ [][GateNext]_vars

\* A StaticPrefetcher with one slot on a page that starts with some of the
\* articles and gets the others appended later, under hover and visibility
\* events.
DomInit ==
    /\ Init
    /\ impl = "static"
    /\ shouldPrefetch
    /\ connection = <<>>
    /\ display = IndexPage
    /\ maxConcurrent = 1

DomNext ==
    \/ \E u \in Urls : AppendArticle(u)
    \/ \E u \in Urls : Intersect(u)
    \/ \E t \in timers : VisibleTimerFire(t)
    \/ \E u \in Urls : MouseEnter(u)
    \/ \E u \in Urls : MouseLeave(u)
    \/ \E t \in timers : HoverTimerFire(t)

DomSpec == DomInit /\ [][DomNext]_vars

\* An ArticlePrefetcher whose started fetches all succeed, each within
\* finite time (weak fairness of the continuations): direct requests arrive
\* only while a slot is free, so the queue holds what prefetchAll() pushed.
AllInit ==
    /\ OpenInit
    /\ impl = "article"
    /\ linkSupport \in {"yes", "no"}

AdmittedRequest(slug) ==
    /\ activePrefetches < maxConcurrent
    /\ ArticlePrefetch(slug)

ArticleSuccess ==
    \/ \E op \in Ops : ArticleFetchResponse(op, TRUE)
    \/ \E op \in Ops : ArticleTextDone(op)

AllNext ==
    \/ \E u \in Urls : AdmittedRequest(u)
    \/ PrefetchAll
    \/ ArticleSuccess

AllSpec == AllInit /\ [][AllNext]_vars /\ WF_vars(ArticleSuccess)

\* ----------------------------------------------------------------- claims
Started(log, url) == \E i \in DOMAIN log : log[i].url = url
InFlight(url) == \E op \in BagToSet(inflight) : op.url = url
StaticFailure(op) == FetchResponse(op, FALSE) \/ FetchError(op) \/ TextError(op)

\* C1: in every reachable state of either prefetcher the slot counter is
\* between 0 and maxConcurrent and equals the number of admitted operations
\* that have not completed (incremented on admission, decremented exactly
\* once per admitted operation).
C1_SlotCount ==
    /\ activePrefetches \in 0..maxConcurrent
    /\ activePrefetches = BagCardinality(inflight)

\* Both slots of a StaticPrefetcher taken and a request waiting, after an
\* earlier fetch has completed.
C1_Witness ==
    /\ impl = "static"
    /\ maxConcurrent = 2
    /\ activePrefetches = maxConcurrent
    /\ prefetchQueue # <<>>
    /\ completed # {}

\* C2 (as claimed): prefetch(url, priority) for a url that is cached, in
\* flight or pending is a no-op: it starts no fetch and leaves
\* activePrefetches, prefetchQueue, prefetched and cache unchanged.
C2_NoOp ==
    [][\A u \in Urls, p \in Priorities :
          ((u \in DOMAIN cache \/ InFlight(u) \/ u \in Range(prefetchQueue)) /\ Prefetch(u, p))
              => /\ fetchLog' = <<>>
                 /\ UNCHANGED <<activePrefetches, prefetchQueue, prefetched, cache>>]_vars

\* C3 (as claimed): once a prefetch of url has completed successfully, no
\* later step starts another fetch for url.
C3_Original ==
    [][\A u \in Urls : u \in completed => ~Started(fetchLog', u)]_vars

\* C3 (amended): a successful completion for url leaves url in the cache, and
\* while url is in the cache no step starts a fetch for it and
\* prefetch(url, *) changes nothing.
C3_CachedNoRefetch ==
    [][\A u \in Urls :
          /\ \A h \in Htmls : TextDone(Op(u, "text"), h) => u \in DOMAIN cache'
          /\ u \in DOMAIN cache => ~Started(fetchLog', u)
          /\ \A p \in Priorities :
                (u \in DOMAIN cache /\ Prefetch(u, p))
                    => UNCHANGED <<activePrefetches, prefetchQueue, prefetched,
                                   cache, inflight>>]_vars

\* A cached url that only the cache check keeps from being fetched again.
C3_Witness ==
    \E u \in DOMAIN cache :
        /\ u \in completed
        /\ u \notin prefetched
        /\ activePrefetches < maxConcurrent

\* C4: a failed fetch for url writes nothing to the cache, frees its slot
\* (which the queue drain may hand to a pending request at once), removes url
\* from prefetched unless that drain re-admitted url, and does not suppress
\* a later prefetch(url): unless url is cached or was just re-admitted, the
\* next prefetch(url, *) starts a fetch for it or defers it for a slot.
C4_FailureRetry ==
    [][\A op \in BagToSet(inflight) :
          StaticFailure(op) =>
              /\ cache' = cache
              /\ activePrefetches' = activePrefetches - 1 + Len(fetchLog')
              /\ op.url \in prefetched' => Started(fetchLog', op.url)
              /\ (op.url \notin DOMAIN cache' /\ ~Started(fetchLog', op.url))
                    => \A p \in Priorities :
                          \/ Started(prefetch(Core, op.url, p).fetchLog, op.url)'
                          \/ op.url \in Range(prefetch(Core, op.url, p).prefetchQueue)']_vars

\* Right after a failure whose drain admitted a pending request while another
\* one keeps waiting: nothing has ever succeeded and nothing is cached.
C4_Witness ==
    /\ impl = "static"
    /\ completed = {}
    /\ cache = EmptyMap
    /\ fetchLog # <<>>
    /\ prefetchLog # <<>>
    /\ prefetchQueue # <<>>

\* C5 (as claimed): when a fetch starts while a request deferred with high
\* priority and one deferred with low priority are both pending, it is not
\* the low-priority one that starts ahead of the high-priority one.
C5_HighFirst ==
    [][\A h, l \in DOMAIN queuedAs :
          (queuedAs[h] = "high" /\ queuedAs[l] = "low")
              => ~(Started(fetchLog', l) /\ ~Started(fetchLog', h))]_vars

\* C6 (as claimed): if x is ahead of y in the pending queue and x's fetch has
\* not started, no step starts y's fetch.
C6_Fifo ==
    [][\A i, j \in DOMAIN prefetchQueue :
          (/\ i < j
           /\ prefetchQueue[i] # prefetchQueue[j]
           /\ prefetchQueue[i] \notin prefetched
           /\ prefetchQueue[i] \notin DOMAIN cache
           /\ ~InFlight(prefetchQueue[i]))
              => ~Started(fetchLog', prefetchQueue[j])]_vars

\* C7 (as claimed): every url on the pending queue eventually has its fetch
\* started (a pending url that an earlier fetch has cached meanwhile counts as
\* served), provided every admitted fetch eventually completes or fails.
C7_EventuallyAdmitted ==
    \A u \in Urls :
        (u \in Range(prefetchQueue)) ~> (Started(fetchLog, u) \/ u \in DOMAIN cache)

\* C8: in the scenario A and B are never deferred; C, requested before any
\* completion, waits in the queue while A and B are in flight; C's fetch has
\* started only if A or B has completed; once A has completed a requested C is
\* no longer waiting; and when all three have succeeded the cache holds
\* exactly A, B and C with no slot taken.
C8_Scenario ==
    LET A == ScenarioOrder[1]
        B == ScenarioOrder[2]
        C == ScenarioOrder[3]
    IN  /\ A \notin Range(prefetchQueue)
        /\ B \notin Range(prefetchQueue)
        /\ (Requested(B) /\ completed = {}) => (InFlight(A) /\ InFlight(B))
        /\ (Requested(C) /\ completed = {})
              => (prefetchQueue = <<C>> /\ ~InFlight(C) /\ C \notin prefetched)
        /\ (InFlight(C) \/ C \in DOMAIN cache) => (A \in completed \/ B \in completed)
        /\ (Requested(C) /\ A \in completed) => C \notin Range(prefetchQueue)
        /\ completed = {A, B, C}
              => (DOMAIN cache = {A, B, C} /\ prefetchQueue = <<>> /\ activePrefetches = 0)

\* A has just completed first and its completion started the waiting C.
C8_Witness ==
    /\ completed = {ScenarioOrder[1]}
    /\ InFlight(ScenarioOrder[2])
    /\ InFlight(ScenarioOrder[3])
    /\ prefetchLog = <<Call(ScenarioOrder[3], "high")>>
    /\ fetchLog = <<Call(ScenarioOrder[3], "high")>>

LiveTimer(url) == \E t \in timers : t.kind = "hover" /\ t.url = url

\* C9: a hover-leave on an identifier whose hover timer is live cancels and
\* discards the timer and calls no prefetch; and a timer callback calls
\* prefetch only for an identifier whose timer was live and fires in that
\* step, so the cancelled hover produces no prefetch call.
C9_LeaveCancels ==
    [][/\ \A u \in DOMAIN hoverTimers :
            (MouseLeave(u) \/ ArticleMouseLeave(u))
                => /\ ~LiveTimer(u)'
                   /\ u \notin DOMAIN hoverTimers'
                   /\ prefetchLog' = <<>>
                   /\ fetchLog' = <<>>
       /\ (prefetchLog' # <<>> /\ timers' # timers)
            => \E t \in timers \ timers' : t.url = prefetchLog'[1].url]_vars

\* A second timer is live while the first handle is free again.
C9_Witness ==
    /\ \E t \in timers : t.kind = "hover" /\ t.id = MaxTimers
    /\ Cardinality(timers) = 1
    /\ prefetched = {}
    /\ prefetchLog = <<>>

\* C10: a hover timer that fires calls prefetch(url, high) exactly once and its
\* handle is discarded; a hover-leave for a url with no live timer changes
\* nothing: not the pending queue, the in-flight fetches, the slot count, the
\* cache, the prefetched set or any timer.
C10_FireOnce ==
    [][/\ \A t \in timers :
            (t.kind = "hover" /\ HoverTimerFire(t))
                => /\ prefetchLog' = <<Call(t.url, "high")>>
                   /\ t.url \notin DOMAIN hoverTimers'
                   /\ t \notin timers'
       /\ \A u \in Urls \ DOMAIN hoverTimers :
            MouseLeave(u)
                => UNCHANGED <<prefetchQueue, inflight, activePrefetches, cache,
                               prefetched, timers, hoverTimers>>]_vars

\* A fired hover left a fetch in flight and a request pending, and the last
\* step (a hover-leave) changed neither.
C10_Witness ==
    /\ impl = "static"
    /\ prefetchQueue # <<>>
    /\ \A op \in BagToSet(inflight) : op.phase = "fetch"
    /\ timers = {}
    /\ hoverTimers = EmptyMap
    /\ prefetchLog = <<>>
    /\ fetchLog = <<>>

\* C11: a mouseenter on a url whose hover timer is still live changes neither
\* the set of timers nor the handle stored for the url: no second timer, no
\* restart, the timer set by the first enter stays the one that will fire.
C11_NoRestart ==
    [][\A u \in DOMAIN hoverTimers :
         (LiveTimer(u) /\ MouseEnter(u))
            => /\ UNCHANGED <<timers, hoverTimers>>
               /\ \E t \in timers' : /\ t.kind = "hover"
                                       /\ t.url = u
                                       /\ t.id = hoverTimers[u]]_vars

\* A StaticPrefetcher with the hover timer of one url live (a mouseenter on
\* that url is a second enter) next to the timer of another url.
C11_Witness ==
    /\ impl = "static"
    /\ \E t \in timers : /\ t.kind = "hover"
                          /\ t.url \in DOMAIN hoverTimers
                          /\ hoverTimers[t.url] = t.id
                          /\ \E o \in timers : o.url # t.url
    /\ prefetchLog = <<>>
\* C12 (as claimed): a click on an article whose url is cached replaces the
\* displayed main content by the cached one, sets the title, pushes one
\* history entry for the url, scrolls to top, and starts neither a fetch nor
\* a page load.
C12_InstantNav ==
    [][\A u \in DOMAIN cache :
         (Click(u) /\ display'.prevented)
            => /\ display'.main = cache[u].doc.main
               /\ display'.title = cache[u].doc.title
               /\ display'.history = Append(display.history, u)
               /\ display'.scrollTop = 0
               /\ display'.location = <<>>
               /\ fetchLog' = <<>>]_vars

\* C13 (as claimed): an intercepted click on an article whose url is not
\* cached starts one fetch of the url through the prefetcher (to be rendered,
\* cached and displayed).
C13_CommitFetches ==
    [][\A u \in Urls \ DOMAIN cache :
         (Click(u) /\ display'.prevented)
            => fetchLog' = <<Call(u, "high")>>]_vars

\* C14 (as claimed): every intercepted click ends in exactly one outcome:
\* the cached content is displayed in place (a history entry is pushed) or
\* a normal load of the url is started, never neither and never both.
C14_OneOutcome ==
    [][\A u \in Urls :
         (Click(u) /\ display'.prevented)
            => (display'.history # display.history) # (display'.location # <<>>)]_vars
\* C15 (as claimed): a cache entry is never overwritten: no step replaces the
\* entry of a url that already has one (first writer wins).
C15_FirstWriterWins ==
    [][\A u \in DOMAIN cache : u \in DOMAIN cache' => cache'[u] = cache[u]]_vars

\* C16 (as claimed): immediately after clearCache() the cache is empty and
\* the pending queue is empty.
C16_ClearEmptiesAll ==
    [][ClearCache => (cache' = EmptyMap /\ prefetchQueue' = <<>>)]_vars
\* C17: checkConnection returns false exactly when the host reports save-data
\* or an effective type of slow-2g or 2g; it returns true for every other
\* report and when there is no connection information.
C17_GateIff ==
    (checkConnection(connection) = FALSE)
        <=> /\ connection # <<>>
            /\ \/ connection[1].saveData
               \/ connection[1].effectiveType \in {"slow-2g", "2g"}

\* A prefetcher constructed with save-data set on a 4g connection: its gate
\* is closed by the flag alone.
C17_Witness ==
    /\ connection # <<>>
    /\ connection[1].saveData
    /\ connection[1].effectiveType = "4g"
    /\ ~shouldPrefetch
    /\ timers = {}

\* C18: with the gate closed at construction no event starts a timer, issues
\* a prefetch request, starts a fetch or has its click intercepted, the
\* prefetcher's fields stay as constructed, and no step changes the gate,
\* whatever the connection reports later.
C18_ClosedGate ==
    [][/\ shouldPrefetch' = shouldPrefetch
       /\ ~shouldPrefetch
            => /\ timers' = {} /\ hoverTimers' = EmptyMap
               /\ prefetchLog' = <<>> /\ fetchLog' = <<>>
               /\ ~display'.prevented
               /\ UNCHANGED <<prefetched, prefetchQueue, activePrefetches,
                              inflight, cache, observed>>]_vars

\* The gate was closed at construction, the connection now reports a good
\* link, and a click has gone through to the article's own onclick.
C18_Witness ==
    /\ ~shouldPrefetch
    /\ checkConnection(connection)
    /\ display.location # <<>>
    /\ ~display.prevented
VisibleTimers(ts) == {t \in ts : t.kind = "visible"}

\* C19: an intersection of an observed element sets a visibility timer for
\* its url whether or not a hover timer for the url is live; the timer can
\* only leave by firing, and firing calls prefetch(url, 'low'); hover events
\* neither cancel nor add visibility timers.
C19_VisibleLow ==
    [][/\ \A u \in Urls : Intersect(u)
             => \E t \in VisibleTimers(timers') \ timers : t.url = u
       /\ \A t \in VisibleTimers(timers) :
             t \notin timers' => prefetchLog' = <<Call(t.url, "low")>>
       /\ \A u \in Urls : (MouseEnter(u) \/ MouseLeave(u))
             => VisibleTimers(timers') = VisibleTimers(timers)]_vars

\* The visibility timer of a url has just fired and called prefetch(url,
\* 'low') while the hover timer of the same url is still live.
C19_Witness ==
    /\ impl = "static"
    /\ prefetchLog # <<>>
    /\ prefetchLog[1].priority = "low"
    /\ LiveTimer(prefetchLog[1].url)
    /\ Started(fetchLog, prefetchLog[1].url)

\* C20 (as claimed): every article element of the document, those appended
\* after initialisation included, is registered with the visibility
\* scheduler of an enabled StaticPrefetcher.
C20_AppendedObserved ==
    (impl = "static" /\ shouldPrefetch) => articles \subseteq observed
\* C21: a cache entry for a url appears only in the step in which a
\* suspended prefetch of that url resumes from response.text(), and an entry
\* disappears only in a step that empties cache and prefetched and touches
\* nothing else, which is clearCache().
C21_EntryLifetime ==
    [][\A u \in Urls :
         /\ (u \in DOMAIN cache' /\ u \notin DOMAIN cache)
               => /\ BagIn(Op(u, "text"), inflight)
                  /\ CopiesIn(Op(u, "text"), inflight')
                        < CopiesIn(Op(u, "text"), inflight)
                  /\ cache'[u].html \in Htmls
         /\ (u \in DOMAIN cache /\ u \notin DOMAIN cache')
               => /\ cache' = EmptyMap
                  /\ prefetched' = {}
                  /\ UNCHANGED <<prefetchQueue, activePrefetches, inflight>>]_vars

\* Two urls are cached, and the task that just ran was a completion that
\* admitted a waiting request.
C21_Witness ==
    /\ impl = "static"
    /\ Cardinality(DOMAIN cache) = 2
    /\ prefetchLog # <<>>
    /\ fetchLog # <<>>
\* C22 (as claimed): every card slug that prefetchAll() put on the queue is
\* eventually prefetched, given that every started fetch completes.
C22_AllPrefetched ==
    \A u \in Range(Cards) : (u \in Range(prefetchQueue)) ~> (u \in prefetched)
NoDuplicates(q) == \A i, j \in DOMAIN q : q[i] = q[j] => i = j

\* C23 (as claimed): the pending queue of a StaticPrefetcher never holds a
\* url twice, nor a url that is in flight or cached.
C23_QueueClean ==
    impl = "static"
        => /\ NoDuplicates(prefetchQueue)
           /\ \A u \in Range(prefetchQueue) : ~InFlight(u) /\ u \notin DOMAIN cache

\* C24 (as claimed): the pending queue of an ArticlePrefetcher never holds a
\* slug twice, nor a slug that is already prefetched.
C24_ArticleQueueClean ==
    impl = "article"
        => /\ NoDuplicates(prefetchQueue)
           /\ \A u \in Range(prefetchQueue) : u \notin prefetched

ArticleFailure(op) ==
    \/ ArticleFetchResponse(op, FALSE)
    \/ ArticleFetchError(op)
    \/ ArticleTextError(op)

\* C25 (as claimed): the task in which a prefetch of a slug fails starts no
\* new fetch for that slug (no retry without a fresh request).
C25_NoAutoRetry ==
    [][\A op \in BagToSet(inflight) :
         ArticleFailure(op) => ~Started(fetchLog', op.url)]_vars
\* C26 (as claimed): a mouseenter on a slug whose hover timer is still live
\* leaves the running timer and the stored handle as they are.
C26_ArticleNoRestart ==
    [][\A u \in DOMAIN hoverTimers :
         (LiveTimer(u) /\ ArticleMouseEnter(u))
            => UNCHANGED <<timers, hoverTimers>>]_vars

HoverTimersOf(url) == {t \in timers : t.kind = "hover" /\ t.url = url}

\* C27: in both classes an identifier has at most one live hover timer, and
\* hoverTimers has an entry for it exactly when it has one, holding that
\* timer's handle.
C27_OneTimerPerId ==
    \A u \in Urls :
        /\ Cardinality(HoverTimersOf(u)) <= 1
        /\ u \in DOMAIN hoverTimers <=> HoverTimersOf(u) # {}
        /\ \A t \in HoverTimersOf(u) : hoverTimers[u] = t.id

\* An ArticlePrefetcher whose only live timer carries the second handle:
\* the slug was entered again while its first timer was running.
C27_Witness ==
    /\ impl = "article"
    /\ Cardinality(timers) = 1
    /\ \E t \in timers : t.kind = "hover" /\ t.id = 2 /\ hoverTimers = MapSet(EmptyMap, t.url, 2)
    /\ prefetched = {}
    /\ prefetchQueue = <<>>
\* ------------------------------------- renderer-based ArticlePrefetcher draft
\* The ArticlePrefetcher of src/unnamed/part_003 prefetches an article by
\* rendering its markdown with MarkdownRenderer.renderFile and keeps the
\* result in htmlCache (cache here; prefetched is prefetchedSlugs). Its
\* click listener shows an article through an ArticleNavigator. A suspended
\* call is [url, phase, html, title]: the slug, the await it is stopped at,
\* and the cached markup and the metadata title it has read so far.
Markdowns == {"# t"}
Titles == {"t"}
ErrorMarkup == "<p class=\"text-red-500\">Error loading article content.</p>"

DraftOp(slug, phase, html, title) ==
    [url |-> slug, phase |-> phase, html |-> html, title |-> title]
Request(slug, file) == [url |-> slug, file |-> file]

\* MarkdownRenderer.render(markdown).
render(markdown) ==
    IF markdown = "# t"
    THEN "<h1 class=\"text-4xl font-bold mb-6 mt-8 text-textLight dark:text-textDark\">t</h1>"
    ELSE "<p class=\"mb-4 leading-relaxed text-textMuted dark:text-textMutedDark\">p</p>"

\* prefetchArticle(slug) up to its await: renderFile has called fetch.
draftPrefetchArticle(st, slug) ==
    IF slug \in st.prefetched THEN st
    ELSE IF st.activePrefetches >= maxConcurrent
         THEN [st EXCEPT !.prefetchQueue = Append(@, slug)]
    ELSE [st EXCEPT !.activePrefetches = @ + 1,
                    !.prefetched = @ \cup {slug},
                    !.inflight = @ (+) SetToBag({DraftOp(slug, "fetch", "", "")}),
                    !.fetchLog = Append(@, Request(slug, "article.md"))]

draftProcessQueue(st) ==
    IF Len(st.prefetchQueue) = 0 THEN st
    ELSE IF st.activePrefetches >= maxConcurrent THEN st
    ELSE draftPrefetchArticle(Calling([st EXCEPT !.prefetchQueue = Tail(@)],
                                      Head(st.prefetchQueue), "high"),
                              Head(st.prefetchQueue))

\* renderFile has returned html to prefetchArticle: htmlCache.set, finally.
draftStore(st, slug, html) ==
    draftProcessQueue([st EXCEPT !.cache = MapSet(@, slug, html),
                                 !.activePrefetches = @ - 1])

\* ArticleNavigator.renderArticlePage and renderError, history.pushState.
renderArticlePage(d, title, html) ==
    [d EXCEPT !.main = IF d.main # <<>> THEN <<html>> ELSE @,
              !.title = <<title, " - Brutal Blog Box">>]
renderError(d) == [d EXCEPT !.main = IF d.main # <<>> THEN <<"404">> ELSE @]
pushState(d, slug) == [d EXCEPT !.history = Append(@, slug)]

\* renderFile returns html (the rendered markdown, or the error markup of
\* its catch block: it never rejects) to the call that awaits it:
\* prefetchArticle, or loadArticle followed by the click listener's pushState.
renderFileReturns(op, html) ==
    IF op.phase \in {"fetch", "text"}
    THEN /\ Commit(draftStore(Resume(op), op.url, html))
         /\ UNCHANGED display
    ELSE /\ Commit(Resume(op))
         /\ display' = pushState(renderArticlePage(display, op.title, html), op.url)

DraftUnchanged ==
    /\ UNCHANGED <<hoverTimers, timers, connection, articles, observed>>
    /\ UnchangedConfig

\* The touchstart listener of a card, or prefetch(slug) for its slug.
DraftPrefetch(slug) ==
    /\ impl = "draft"
    /\ slug \in articles
    /\ Within(draftPrefetchArticle(Core, slug))
    /\ Commit(draftPrefetchArticle(Core, slug))
    /\ UNCHANGED display
    /\ DraftUnchanged

\* clear(): no timers are live in the behaviours taken here.
DraftClear ==
    /\ impl = "draft"
    /\ Commit([Core EXCEPT !.prefetched = {}, !.cache = EmptyMap,
                           !.prefetchQueue = <<>>])
    /\ UNCHANGED display
    /\ DraftUnchanged

\* renderFile: await fetch(url) resolves; !response.ok throws into its catch.
RenderFileResponse(op, ok) ==
    /\ impl = "draft"
    /\ BagIn(op, inflight)
    /\ op.phase \in {"fetch", "loadFetch"}
    /\ IF ok
       THEN /\ Commit([Resume(op) EXCEPT !.inflight = @ (+) SetToBag(
                         {[op EXCEPT !.phase = IF op.phase = "fetch" THEN "text"
                                                                     ELSE "loadText"]})])
            /\ UNCHANGED display
       ELSE renderFileReturns(op, ErrorMarkup)
    /\ DraftUnchanged

\* renderFile: await fetch(url) rejects.
RenderFileError(op) ==
    /\ impl = "draft"
    /\ BagIn(op, inflight)
    /\ op.phase \in {"fetch", "loadFetch"}
    /\ renderFileReturns(op, ErrorMarkup)
    /\ DraftUnchanged

\* renderFile: await response.text() resolves.
RenderFileText(op, markdown) ==
    /\ impl = "draft"
    /\ BagIn(op, inflight)
    /\ op.phase \in {"text", "loadText"}
    /\ renderFileReturns(op, render(markdown))
    /\ DraftUnchanged

\* renderFile: await response.text() rejects.
RenderFileTextError(op) ==
    /\ impl = "draft"
    /\ BagIn(op, inflight)
    /\ op.phase \in {"text", "loadText"}
    /\ renderFileReturns(op, ErrorMarkup)
    /\ DraftUnchanged

\* The suspended calls of click listeners.
Clicks == {op \in BagToSet(inflight) :
             op.phase \in {"metadata", "json", "loadMetadata", "loadJson",
                           "loadFetch", "loadText"}}
PendingClicks == BagCardinality([op \in Clicks |-> CopiesIn(op, inflight)])

\* The click listener of hijackClicks on the index page, with
\* window.ArticleNavigator defined: preventDefault, await navigator.init()
\* (which awaits nothing when the location names no article), then the
\* fetch of metadata.json, by the listener itself for a cached slug and by
\* loadArticle otherwise.
DraftClick(slug) ==
    /\ impl = "draft"
    /\ slug \in articles
    /\ display.main = <<"cards">>
    /\ display.history = <<>>
    /\ PendingClicks < MaxClicks
    /\ display' = [display EXCEPT !.prevented = TRUE]
    /\ Commit([Core EXCEPT
          !.inflight = @ (+) SetToBag(
              {IF slug \in DOMAIN cache
               THEN DraftOp(slug, "metadata", cache[slug], "")
               ELSE DraftOp(slug, "loadMetadata", "", "")}),
          !.fetchLog = Append(@, Request(slug, "metadata.json"))])
    /\ DraftUnchanged

\* await fetch(metadata.json) resolves: response.json() is awaited next.
MetadataResponse(op) ==
    /\ impl = "draft"
    /\ BagIn(op, inflight)
    /\ op.phase \in {"metadata", "loadMetadata"}
    /\ Commit([Resume(op) EXCEPT !.inflight = @ (+) SetToBag(
                  {[op EXCEPT !.phase = IF op.phase = "metadata" THEN "json"
                                                                 ELSE "loadJson"]})])
    /\ UNCHANGED display
    /\ DraftUnchanged

\* The metadata fetch or response.json() rejects: the listener's own call
\* ends with the rejection; loadArticle catches it, renders the error page
\* and the listener pushes the history entry.
metadataFails(op) ==
    /\ Commit(Resume(op))
    /\ display' = IF op.phase \in {"metadata", "json"}
                  THEN display
                  ELSE pushState(renderError(display), op.url)

MetadataError(op) ==
    /\ impl = "draft"
    /\ BagIn(op, inflight)
    /\ op.phase \in {"metadata", "loadMetadata"}
    /\ metadataFails(op)
    /\ DraftUnchanged

\* await response.json() resolves with the metadata: the listener renders
\* the cached markup; loadArticle goes on to renderFile.
MetadataJson(op, title) ==
    /\ impl = "draft"
    /\ BagIn(op, inflight)
    /\ op.phase \in {"json", "loadJson"}
    /\ IF op.phase = "json"
       THEN /\ Commit(Resume(op))
            /\ display' = pushState(renderArticlePage(display, title, op.html), op.url)
       ELSE /\ Commit([Resume(op) EXCEPT
                  !.inflight = @ (+) SetToBag({[op EXCEPT !.phase = "loadFetch",
                                                          !.title = title]}),
                  !.fetchLog = Append(@, Request(op.url, "article.md"))])
            /\ UNCHANGED display
    /\ DraftUnchanged

MetadataJsonError(op) ==
    /\ impl = "draft"
    /\ BagIn(op, inflight)
    /\ op.phase \in {"json", "loadJson"}
    /\ metadataFails(op)
    /\ DraftUnchanged

\* The draft constructed on an index page of two cards after
\* markdown-renderer.js has defined MarkdownRenderer and ArticleNavigator,
\* on a host without connection information.
DraftInit ==
    /\ impl = "draft"
    /\ \E opt \in OptionValues : maxConcurrent = optionMaxConcurrent(opt)
    /\ connection = <<>>
    /\ shouldPrefetch = checkConnection(connection)
    /\ linkSupport = "no"
    /\ articles = {"A", "B"}
    /\ observed = articles
    /\ display = IndexPage
    /\ InitFields

DraftNext ==
    \/ \E u \in articles : DraftPrefetch(u)
    \/ DraftClear
    \/ \E u \in articles : DraftClick(u)
    \/ \E op \in BagToSet(inflight), ok \in BOOLEAN : RenderFileResponse(op, ok)
    \/ \E op \in BagToSet(inflight) : RenderFileError(op)
    \/ \E op \in BagToSet(inflight), m \in Markdowns : RenderFileText(op, m)
    \/ \E op \in BagToSet(inflight) : RenderFileTextError(op)
    \/ \E op \in BagToSet(inflight) : MetadataResponse(op)
    \/ \E op \in BagToSet(inflight) : MetadataError(op)
    \/ \E op \in BagToSet(inflight), t \in Titles : MetadataJson(op, t)
    \/ \E op \in BagToSet(inflight) : MetadataJsonError(op)

DraftSpec == DraftInit /\ [][DraftNext]_vars

\* The content fetch of a suspended prefetch fails inside renderFile.
DraftFetchFailure(op) ==
    /\ op.phase = "fetch"
    /\ RenderFileResponse(op, FALSE) \/ RenderFileError(op)

\* C28 (as claimed): a prefetch whose content fetch fails leaves htmlCache
\* without an entry for the slug and takes the slug out of prefetchedSlugs.
C28_FailureNotCached ==
    [][\A op \in BagToSet(inflight) :
         DraftFetchFailure(op)
            => op.url \notin DOMAIN cache' /\ op.url \notin prefetched']_vars

\* C29 (as claimed): a click on a card whose slug is in htmlCache shows the
\* article in the click's own task and starts no fetch, neither of the
\* content nor of the metadata.
C29_CachedClickNoFetch ==
    [][\A u \in Urls :
         (u \in DOMAIN cache /\ DraftClick(u))
            => /\ fetchLog' = <<>>
               /\ display'.main = <<cache[u]>>
               /\ display'.history = Append(display.history, u)]_vars
\* The network prefetches of an ArticlePrefetcher that are outstanding when
\* a task ends: the suspended prefetchWithFetch calls, and the link
\* prefetches the task has just appended to the document, whose downloads
\* the browser cannot have finished within the task.
Outstanding ==
    BagCardinality(inflight)
      + Cardinality({i \in DOMAIN fetchLog : fetchLog[i].priority = "link"})

\* C30 (as claimed): at any instant at most maxConcurrentPrefetch network
\* prefetches started by prefetchArticle are outstanding, on the link path
\* and on the fetch path.
C30_OutstandingBound == impl = "article" => Outstanding <= maxConcurrent
\* ------------------------------------------------------ completion order
\* A StaticPrefetcher whose requests all succeed: prefetch calls in any
\* order, and the admitted fetches complete in any order.
OrderInit ==
    /\ OpenInit
    /\ impl = "static"

OrderNext ==
    \/ \E u \in Urls, p \in Priorities : Prefetch(u, p)
    \/ \E op \in Ops : FetchResponse(op, TRUE)
    \/ \E op \in Ops, h \in Htmls : TextDone(op, h)

OrderSpec == OrderInit /\ [][OrderNext]_vars

\* C31: when all admitted fetches of a StaticPrefetcher have succeeded, the
\* cached urls are exactly the requested ones, whatever the order in which
\* the concurrent fetches completed.
C31_OrderIndependent ==
    inflight = EmptyBag => DOMAIN cache = {u \in Urls : Requested(u)}

\* Two slots and three requests, all of them complete.
C31_Witness ==
    /\ maxConcurrent = 2
    /\ inflight = EmptyBag
    /\ activePrefetches = 0
    /\ DOMAIN cache = Urls
    /\ completed = Urls
\* A fetch of loadArticle fails: the metadata fetch rejects, or the content
\* fetch inside renderFile rejects or answers with a non-OK status.
LoadFailure(op) ==
    \/ op.phase = "loadMetadata" /\ MetadataError(op)
    \/ op.phase = "loadFetch" /\ (RenderFileResponse(op, FALSE) \/ RenderFileError(op))

\* C32 (as claimed): when the metadata fetch or the content fetch of
\* loadArticle fails, the not-found state of renderError is displayed.
C32_LoadFailureNotFound ==
    [][\A op \in BagToSet(inflight) :
         LoadFailure(op) => display'.main = <<"404">>]_vars
\* C33 (as claimed): in a StaticPrefetcher a non-empty pending queue means
\* that every slot is occupied.
C33_NoIdleSlot ==
    impl = "static" => (prefetchQueue # <<>> => activePrefetches = maxConcurrent)
\* The suspended fetches of url, at either await.
FetchesInFlight(url) ==
    CopiesIn(Op(url, "fetch"), inflight) + CopiesIn(Op(url, "text"), inflight)

\* C34 (as claimed): a StaticPrefetcher has at most one fetch per url in
\* flight at any time, also when clearCache() ran while it was in flight.
C34_OneFetchPerUrl ==
    impl = "static" => \A u \in Urls : FetchesInFlight(u) <= 1

\* C35 (as claimed): in a StaticPrefetcher every cached url is in the
\* prefetched set: the cache holds only entries of prefetches admitted since
\* the last clearCache(), a fetch in flight at the clear writes nothing.
C35_CacheAfterClear ==
    impl = "static" => DOMAIN cache \subseteq prefetched
\* ------------------------------------------------- closed gate, public API
\* A prefetcher with one slot constructed on a connection that closes the
\* gate (save-data, or an effective type of 2g or slower); the page's script
\* calls the public methods.
ClosedInit ==
    /\ Init
    /\ ~shouldPrefetch
    /\ maxConcurrent = 1
    /\ FullPage

ClosedNext ==
    \/ \E u \in Urls : Prefetch(u, "high")
    \/ \E u \in Urls : ArticlePrefetch(u)
    \/ PrefetchAll
    \/ StaticCompletion
    \/ ArticleCompletion

ClosedSpec == ClosedInit /\ [][ClosedNext]_vars

\* C36 (as claimed): with the gate closed the public entry points start no
\* fetch: no slot is taken, nothing is fetched and nothing is cached or
\* marked as prefetched.
C36_ClosedGateNoFetch ==
    ~shouldPrefetch =>
        /\ activePrefetches = 0
        /\ inflight = EmptyBag
        /\ fetchLog = <<>>
        /\ prefetched = {}
        /\ cache = EmptyMap
\* ------------------------------------------------------------ construction
\* new StaticPrefetcher(options) as a step of its own. Before it impl is
\* "none" and the fields hold nothing; a constructor that throws leaves no
\* instance (impl "threw"). The options object passes aggressiveMode: false,
\* as the page's script does, and may or may not pass maxConcurrent and
\* instantNavigation (<<>> is an omitted option). The expression at line 9
\* reads the global name tre: <<>> is a page that does not define it, as no
\* file of the repository does; <<v>> a page that defines it with value v.
InstantNavigationOptions == {<<>>, <<TRUE>>}
MaxConcurrentOptions == {<<>>} \cup OptionValues
Globals == {<<>>, <<TRUE>>}

\* options.instantNavigation !== tre, then ...options.
optionInstantNavigation(opt, tre) ==
    IF opt # <<>> THEN opt[1] ELSE opt # tre

\* init() with the options as constructed: setupInstantNav is called only
\* when options.instantNavigation is set.
initWith(gate, instantNavigation) ==
    IF ~gate THEN {}
    ELSE {"hover", "visible"} \cup (IF instantNavigation THEN {"click"} ELSE {})

\* The constructor. The options taken here all end with instantNavigation
\* set, so that init() installs what init(gate) says.
Construct(optMax, optNav, tre) ==
    /\ impl = "none"
    /\ IF tre = <<>>
       THEN /\ impl' = "threw"
            /\ UNCHANGED <<maxConcurrent, shouldPrefetch, observed>>
       ELSE /\ impl' = "static"
            /\ maxConcurrent' = optionMaxConcurrent(optMax)
            /\ shouldPrefetch' = checkConnection(connection)
            /\ initWith(checkConnection(connection),
                        optionInstantNavigation(optNav, tre))
                  = init(checkConnection(connection))
            /\ observed' = IF "visible" \in init(checkConnection(connection))
                           THEN articles ELSE {}
    /\ UNCHANGED <<linkSupport, hoverTimers, timers, connection, articles, display>>
    /\ UnchangedCore

ConstructInit ==
    /\ impl = "none"
    /\ maxConcurrent = 0
    /\ shouldPrefetch = FALSE
    /\ linkSupport = "no"
    /\ connection \in Connections
    /\ articles = Urls
    /\ observed = {}
    /\ display = IndexPage
    /\ InitFields

ConstructNext ==
    \/ \E m \in MaxConcurrentOptions, n \in InstantNavigationOptions, g \in Globals :
          Construct(m, n, g)
    \/ \E u \in Urls : MouseEnter(u)
    \/ \E u \in Urls : Intersect(u)
    \/ \E u \in Urls : Click(u)

ConstructSpec == ConstructInit /\ [][ConstructNext]_vars

\* C37 (as claimed): constructing a StaticPrefetcher never throws, whatever
\* options are given, and when instantNavigation is omitted and the gate is
\* open init() has installed hover scheduling, visibility scheduling and
\* click interception.
C37_ConstructionCompletes ==
    [][\A m \in MaxConcurrentOptions, n \in InstantNavigationOptions, g \in Globals :
         Construct(m, n, g)
            => /\ impl' = "static"
               /\ (n = <<>> /\ shouldPrefetch')
                     => initWith(TRUE, optionInstantNavigation(n, g)) = Listeners]_vars
====
